---- MODULE Spec2Model ----
(***************************************************************************)
(* Forecast API: the query-construction and caching layer.                 *)
(*                                                                         *)
(*   app/services/bigquery_service.py   BigQueryService and the module     *)
(*                                      level _cache                       *)
(*   app/routers/forecast_router.py     the HTTP handlers calling it       *)
(*   app/models/forecast_model.py       ForecastQuery                      *)
(*                                                                         *)
(* Requests are handled by coroutines on one event loop: the code between  *)
(* two awaits runs atomically, and so is one action here.  The warehouse   *)
(* is external: it answers each query with rows or with a failure.         *)
(***************************************************************************)
EXTENDS Integers, Sequences, FiniteSets, TLC

VARIABLES
    now,        \* datetime.now(), in seconds
    cache,      \* the module level _cache: three dictionaries
    reqs,       \* the request being handled in each slot
    last,       \* the response written by the step just taken, if any
    hashseed,   \* the per-process seed of Python's str hash
    stored,     \* history: per cache key, the last _set_cache not cleared since
    bq,         \* builder harness: the ForecastQuery under construction
    built,      \* builder harness: the last (query, params) built from bq
    pool        \* THREAD_POOL: where each submitted query stands

vars == <<now, cache, reqs, last, hashseed, stored, bq, built, pool>>

-----------------------------------------------------------------------------
(* Bounds of the model *)

TickSeconds == 150      \* the clock advances in steps of this many seconds
MaxTicks == 2           \* ... at most this many times

MaxTime == MaxTicks * TickSeconds

\* The requests that can be in flight at the same time
Slots == {1, 2}

-----------------------------------------------------------------------------
(* Python values *)

None == "None"

Truthy(v) == v # None /\ v # ""

Min(a, b) == IF a < b THEN a ELSE b
Max(a, b) == IF a < b THEN b ELSE a

RECURSIVE Join(_, _)
Join(seq, sep) ==
    IF Len(seq) = 0 THEN <<>>
    ELSE IF Len(seq) = 1 THEN <<seq[1]>>
    ELSE <<seq[1], sep>> \o Join(Tail(seq), sep)

RECURSIVE SeqSum(_)
SeqSum(seq) == IF seq = <<>> THEN 0 ELSE seq[1] + SeqSum(Tail(seq))

Range(seq) == {seq[i] : i \in 1..Len(seq)}

-----------------------------------------------------------------------------
(* ForecastQuery *)

StringFields ==
    <<"site_id", "brand", "mh_segment", "mh_family", "mh_class", "mh_brick",
      "product_id", "forecast_run_id", "model_used">>
DateFields == <<"start_date", "end_date">>
FilterFields == StringFields \o DateFields

ForecastQuery(filters, limit, offset) ==
    [f \in Range(FilterFields) \cup {"limit", "offset"} |->
        IF f = "limit" THEN limit
        ELSE IF f = "offset" THEN offset
        ELSE filters[f]]

NoFilters == [f \in Range(FilterFields) |-> None]

DefaultLimit == 100
DefaultOffset == 0
SummaryLimit == 1000000

-----------------------------------------------------------------------------
(* SQL text: a sequence of pieces, each either text written in the code or *)
(* the value of an expression an f-string interpolates.                    *)

Lit(t) == [kind |-> "text", text |-> t]
Interp(v) == [kind |-> "interp", text |-> v]

TableRef == "{project_id}.{dataset_id}.{table_id}"

ConditionText(f) ==
    CASE f = "site_id" -> "site_id = @site_id"
      [] f = "brand" -> "brand = @brand"
      [] f = "mh_segment" -> "mh_segment = @mh_segment"
      [] f = "mh_family" -> "mh_family = @mh_family"
      [] f = "mh_class" -> "mh_class = @mh_class"
      [] f = "mh_brick" -> "mh_brick = @mh_brick"
      [] f = "product_id" -> "product_id = @product_id"
      [] f = "forecast_run_id" -> "forecast_run_id = @forecast_run_id"
      [] f = "model_used" -> "model_used = @model_used"
      [] f = "start_date" -> "forecast_week >= @start_date"
      [] f = "end_date" -> "forecast_week <= @end_date"

\* The test guarding each field's block: "is not None" for site_id and
\* brand, the value's truth for every other field.
FieldApplies(query_params, f) ==
    IF f \in {"site_id", "brand"}
    THEN query_params[f] # None
    ELSE Truthy(query_params[f])

\* A condition that interpolates the value instead of naming a placeholder
Condition_interpolated(query_params, f) == Interp(query_params[f])

\* conditions.append("<column> = @<name>"): text written in the code, with
\* a named placeholder where the value goes
Condition(query_params, f) == Lit(ConditionText(f))

AppliedFields(query_params) ==
    SelectSeq(FilterFields, LAMBDA f : FieldApplies(query_params, f))

_build_parameterized_where_conditions(query_params) ==
    LET applied == AppliedFields(query_params)
        conditions == [i \in 1..Len(applied) |->
                            Condition(query_params, applied[i])]
        params == [f \in Range(applied) |-> query_params[f]]
        where_clause ==
            IF Len(conditions) > 0
            THEN <<Lit(" WHERE ")>> \o Join(conditions, Lit(" AND "))
            ELSE <<>>
    IN [where_clause |-> where_clause, params |-> params]

_build_optimized_query(query_params) ==
    LET w == _build_parameterized_where_conditions(query_params)
    IN [sql |-> <<Lit("SELECT forecast_datetime, ..., created_at FROM "),
                  Interp(TableRef)>>
                \o w.where_clause
                \o <<Lit(" ORDER BY forecast_datetime DESC, forecast_week ASC"),
                     Lit(" LIMIT @limit OFFSET @offset")>>,
        params |-> w.params @@ [p \in {"limit", "offset"} |-> query_params[p]]]

_build_optimized_count_query(query_params) ==
    LET w == _build_parameterized_where_conditions(query_params)
    IN [sql |-> <<Lit("SELECT COUNT(*) as total_count FROM "), Interp(TableRef)>>
                \o w.where_clause,
        params |-> w.params]

BuildSummaryQuery(query_params) ==
    LET w == _build_parameterized_where_conditions(query_params)
    IN [sql |-> <<Lit("SELECT COUNT(*) as total_records, ..., MAX(forecast_week) as max_forecast_week FROM "),
                  Interp(TableRef)>>
                \o w.where_clause,
        params |-> w.params]

NoParams == [p \in {} |-> None]

BuildDistinctQuery(column_name) ==
    [sql |-> <<Lit("SELECT DISTINCT "), Interp(column_name),
               Lit(" FROM "), Interp(TableRef),
               Lit(" WHERE "), Interp(column_name), Lit(" IS NOT NULL"),
               Lit(" ORDER BY "), Interp(column_name),
               Lit(" LIMIT 1000")>>,
     params |-> NoParams]

-----------------------------------------------------------------------------
(* Python strings, where the code looks inside them *)

\* The characters of the strings clear_cache compares.  Any other string
\* is kept whole, as one symbol that equals no single character: the
\* comparisons below are decided before they reach it.
Chars(s) ==
    CASE s = "" -> <<>>
      [] s = "unique_" -> <<"u", "n", "i", "q", "u", "e", "_">>
      [] s = "summary_" -> <<"s", "u", "m", "m", "a", "r", "y", "_">>
      [] s = "all_unique_values" ->
            <<"a", "l", "l", "_", "u", "n", "i", "q", "u", "e", "_",
              "v", "a", "l", "u", "e", "s">>
      [] s = "unique_values" ->
            <<"u", "n", "i", "q", "u", "e", "_", "v", "a", "l", "u", "e", "s">>
      [] s = "summary_stats" ->
            <<"s", "u", "m", "m", "a", "r", "y", "_", "s", "t", "a", "t", "s">>
      [] OTHER -> <<s>>

\* str.replace("_", "")
ReplaceUnderscore(chars) == SelectSeq(chars, LAMBDA ch : ch # "_")

\* str.startswith
StartsWith(chars, prefix) ==
    /\ Len(prefix) <= Len(chars)
    /\ SubSeq(chars, 1, Len(prefix)) = prefix

\* A cache key is an f-string of a fixed prefix and one interpolated value:
\* the pair of them.
KeyChars(cache_key) == Chars(cache_key[1]) \o Chars(cache_key[2])

-----------------------------------------------------------------------------
(* The cache store *)

CACHE_TTL == 300

EmptyDict == [k \in {} |-> None]

EmptyCache ==
    [unique_values |-> EmptyDict,
     summary_stats |-> EmptyDict,
     cache_timestamps |-> EmptyDict]

\* A dictionary without the keys in ks
Without(d, ks) == [k \in DOMAIN d \ ks |-> d[k]]

\* An optional value: <<>> is Python's None, <<v>> the value v
Absent == <<>>
Some(v) == <<v>>

\* _is_cache_valid with "<=" where the code has "<"
_is_cache_valid_inclusive(c, t, cache_key) ==
    IF cache_key \notin DOMAIN c.cache_timestamps
    THEN FALSE
    ELSE (t - c.cache_timestamps[cache_key]) <= CACHE_TTL

_is_cache_valid(c, t, cache_key) ==
    IF cache_key \notin DOMAIN c.cache_timestamps
    THEN FALSE
    ELSE (t - c.cache_timestamps[cache_key]) < CACHE_TTL

\* _set_cache that keeps the value a key already has and renews its time
_set_cache_first_wins(c, t, cache_key, data, cache_type) ==
    [c EXCEPT ![cache_type] = @ @@ (cache_key :> data),
              !.cache_timestamps = (cache_key :> t) @@ @]

\* _set_cache without its second statement
_set_cache_untimed(c, t, cache_key, data, cache_type) ==
    [c EXCEPT ![cache_type] = (cache_key :> data) @@ @]

_set_cache(c, t, cache_key, data, cache_type) ==
    [c EXCEPT ![cache_type] = (cache_key :> data) @@ @,
              !.cache_timestamps = (cache_key :> t) @@ @]

\* The store after _get_cache, if it evicted what it finds stale
_get_cache_store_evicting(c, t, cache_key, cache_type) ==
    IF cache_key \in DOMAIN c.cache_timestamps
       /\ ~((t - c.cache_timestamps[cache_key]) < CACHE_TTL)
    THEN [c EXCEPT ![cache_type] =
                    [k \in DOMAIN @ \ {cache_key} |-> @[k]],
                   !.cache_timestamps =
                    [k \in DOMAIN @ \ {cache_key} |-> @[k]]]
    ELSE c

\* The store after _get_cache: neither it nor _is_cache_valid assigns to
\* _cache
_get_cache_store(c, t, cache_key, cache_type) == c

_get_cache(c, t, cache_key, cache_type) ==
    IF _is_cache_valid(c, t, cache_key)
    THEN IF cache_key \in DOMAIN c[cache_type]
         THEN Some(c[cache_type][cache_key])
         ELSE Absent
    ELSE Absent

\* clear_cache that drops every timestamp along with one category
clear_cache_every_timestamp(c, cache_type) ==
    IF Truthy(cache_type)
    THEN [c EXCEPT ![cache_type] = EmptyDict, !.cache_timestamps = EmptyDict]
    ELSE EmptyCache

\* clear_cache(cache_type); cache_type None or "" takes the else branch
clear_cache(c, cache_type) ==
    IF Truthy(cache_type)
    THEN LET keys_to_remove ==
                {key \in DOMAIN c.cache_timestamps :
                    StartsWith(KeyChars(key),
                               ReplaceUnderscore(Chars(cache_type)))}
         IN [c EXCEPT ![cache_type] = EmptyDict,
                      !.cache_timestamps = Without(@, keys_to_remove)]
    ELSE EmptyCache

THREAD_POOL_max_workers == 10

get_cache_stats(c) ==
    [unique_values_cached |-> Cardinality(DOMAIN c.unique_values),
     summary_stats_cached |-> Cardinality(DOMAIN c.summary_stats),
     total_cached_items |-> Cardinality(DOMAIN c.cache_timestamps),
     cache_ttl_seconds |-> CACHE_TTL,
     thread_pool_workers |-> THREAD_POOL_max_workers]

-----------------------------------------------------------------------------
(* Cache keys *)

HashMod == 5            \* Python's str hash, folded into a small range

ValueCode(v) == IF v = None THEN 0 ELSE IF v = "" THEN 1 ELSE 2

\* str(query_params): the text of all thirteen fields, as one number
StrOf(query_params) ==
    SeqSum([i \in 1..Len(FilterFields) |->
                i * ValueCode(query_params[FilterFields[i]])])

\* hash(str): fixed within a process, different between processes, signed
PyHash(seed, n) == ((n * seed) % HashMod) - (HashMod \div 2)

Abs(n) == IF n < 0 THEN 0 - n ELSE n

\* A summary key that takes in the time of the call
SummaryKey_timed(seed, query_params) == <<"summary_", ToString(now)>>

SummaryKey(seed, query_params) ==
    <<"summary_", ToString(Abs(PyHash(seed, StrOf(query_params))))>>

UniqueKey(column_name) == <<"unique_", column_name>>

AllUniqueKey == <<"all_unique_values", "">>

-----------------------------------------------------------------------------
(* The warehouse: what a query can come back with *)

\* COUNT(*) over the filtered set
TableCounts == {0, 120}

\* The rows a LIMIT/OFFSET query returns from a filtered set of m rows
PageRows(m, limit, offset) == Min(limit, Max(m - offset, 0))

\* The one row of the summary query; an aggregate over no value is NULL
SummaryRows ==
    { [total_records |-> 0, unique_sites |-> 0, unique_brands |-> 0,
       unique_products |-> 0, unique_forecast_runs |-> 0,
       avg_actual_qty |-> Absent, avg_predicted_qty |-> Absent,
       total_actual_qty |-> Absent, total_predicted_qty |-> Absent,
       min_forecast_week |-> Absent, max_forecast_week |-> Absent],
      [total_records |-> 120, unique_sites |-> 2, unique_brands |-> 3,
       unique_products |-> 40, unique_forecast_runs |-> 1,
       avg_actual_qty |-> Absent, avg_predicted_qty |-> Some(7),
       total_actual_qty |-> Absent, total_predicted_qty |-> Some(840),
       min_forecast_week |-> Some("2024-01-01"),
       max_forecast_week |-> Some("2024-03-25")] }

\* The values of a DISTINCT query, as the column's type has them
DistinctRows(column) ==
    IF column = "qty_group" THEN {<<>>, <<1, 2>>}
    ELSE IF column = "brand" THEN {<<"B1">>}
    ELSE {<<>>, <<"S1", "S2">>}

Errors == {"upstream", "timeout"}

\* str(row[0])
PyStr(column, v) == IF column = "qty_group" THEN ToString(v) ELSE v

\* "int(x) if x else 0" and "float(x) if x else 0": NULL and 0 both give 0
NumberOrZero(x) == IF x # Absent /\ x[1] # 0 THEN x[1] ELSE 0
CountOrZero(n) == IF n # 0 THEN n ELSE 0

\* summary_data, with performance_metrics telling whether the key is there
SummaryData(row) ==
    [total_records |-> CountOrZero(row.total_records),
     unique_sites |-> CountOrZero(row.unique_sites),
     unique_brands |-> CountOrZero(row.unique_brands),
     unique_products |-> CountOrZero(row.unique_products),
     unique_forecast_runs |-> CountOrZero(row.unique_forecast_runs),
     avg_actual_qty |-> NumberOrZero(row.avg_actual_qty),
     avg_predicted_qty |-> NumberOrZero(row.avg_predicted_qty),
     total_actual_qty |-> NumberOrZero(row.total_actual_qty),
     total_predicted_qty |-> NumberOrZero(row.total_predicted_qty),
     min_forecast_week |-> row.min_forecast_week,
     max_forecast_week |-> row.max_forecast_week,
     performance_metrics |-> FALSE]

-----------------------------------------------------------------------------
(* Requests *)

NoQueries == [q \in {} |-> None]

\* A request: what was asked, and the queries it is waiting for
IdleReq ==
    [op |-> "idle", pc |-> "idle", filters |-> NoFilters, limit |-> 0,
     offset |-> 0, column |-> "", cache_type |-> "", qs |-> NoQueries]

\* A response: the request, whether the cache answered it, the warehouse
\* queries it issued, the HTTP status and the body
NoResponse ==
    [op |-> "idle", filters |-> NoFilters, limit |-> 0, offset |-> 0,
     column |-> "", cache_type |-> "", hit |-> FALSE, issued |-> 0,
     status |-> 0, body |-> Absent]

\* A query handed to _execute_query_async: attempts counts the times it is
\* sent to the warehouse
Pending(q) ==
    [sql |-> q.sql, params |-> q.params, state |-> "pending", result |-> Absent,
     attempts |-> 1]

Awaiting(r, queries) ==
    [r EXCEPT !.pc = "await",
              !.qs = [q \in DOMAIN queries |-> Pending(queries[q])]]

Response(r, hit, issued, status, body) ==
    [op |-> r.op, filters |-> r.filters, limit |-> r.limit,
     offset |-> r.offset, column |-> r.column, cache_type |-> r.cache_type,
     hit |-> hit, issued |-> issued, status |-> status, body |-> Some(body)]

\* The handler in slot s suspends at an await
Suspend(s, r, queries) ==
    /\ reqs' = [reqs EXCEPT ![s] = Awaiting(r, queries)]
    /\ last' = NoResponse

\* The handler in slot s returns or raises: the response is written
Finish(s, r, hit, status, body) ==
    /\ reqs' = [reqs EXCEPT ![s] = IdleReq]
    /\ last' = Response(r, hit, Cardinality(DOMAIN reqs[s].qs), status, body)

AllOk(qs) == \A q \in DOMAIN qs : qs[q].state = "ok"

Answered(qs, q, result) ==
    [qs EXCEPT ![q].state = "ok", ![q].result = Some(result)]

\* The history of the cache: what the last _set_cache under each key stored
\* and when, forgotten when that key's category is cleared
Remember(h, cache_key, cache_type, data, t, r) ==
    (cache_key :> [cache_type |-> cache_type, data |-> Some(data), at |-> t,
                   filters |-> r.filters,
                   issued |-> Cardinality(DOMAIN r.qs)]) @@ h

Forget(h, cache_type) ==
    IF Truthy(cache_type) /\ cache_type # "all"
    THEN [k \in {k \in DOMAIN h : h[k].cache_type # cache_type} |-> h[k]]
    ELSE EmptyDict

-----------------------------------------------------------------------------
(* GET /forecast/ and GET /forecast/health *)

\* get_forecast_data sending the count query in both places
ForecastDataQueries_count_twice(query_params) ==
    [data |-> _build_optimized_count_query(query_params),
     count |-> _build_optimized_count_query(query_params)]

\* The queries get_forecast_data hands to asyncio.gather
ForecastDataQueries(query_params) ==
    [data |-> _build_optimized_query(query_params),
     count |-> _build_optimized_count_query(query_params)]

current_page(offset, limit) == (offset \div limit) + 1

\* has_next with "<=" where the code has "<"
has_next_inclusive(offset, limit, total_count) == offset + limit <= total_count

has_next(offset, limit, total_count) == offset + limit < total_count

\* sum(1 for param in [...] if param is not None)
filters_applied(filters) ==
    Cardinality({f \in Range(FilterFields) : filters[f] # None})

ForecastResponse(r, n_records, total_count) ==
    [data |-> n_records,
     total_records |-> total_count,
     page |-> current_page(r.offset, r.limit),
     page_size |-> r.limit,
     has_next |-> has_next(r.offset, r.limit, total_count),
     filters_applied |-> filters_applied(r.filters)]

\* Query(100, ge=1, le=1000) and Query(0, ge=0)
ValidPaging(limit, offset) == limit >= 1 /\ limit <= 1000 /\ offset >= 0

Handle_get_forecast_data(s, filters, limit, offset) ==
    LET r == [IdleReq EXCEPT !.op = "list", !.filters = filters,
                             !.limit = limit, !.offset = offset]
    IN /\ reqs[s].pc = "idle"
       /\ IF ValidPaging(limit, offset)
          THEN Suspend(s, r, ForecastDataQueries(
                                ForecastQuery(filters, limit, offset)))
          ELSE Finish(s, r, FALSE, 422, "validation error")
       /\ UNCHANGED <<now, cache, hashseed, stored, bq, built, pool>>

Handle_health_check(s) ==
    /\ reqs[s].pc = "idle"
    /\ Suspend(s, [IdleReq EXCEPT !.op = "health", !.limit = 1],
               ForecastDataQueries(ForecastQuery(NoFilters, 1, 0)))
    /\ UNCHANGED <<now, cache, hashseed, stored, bq, built, pool>>

\* get_forecast_data answering with the first of the two results, the
\* other taken as empty
Resume_get_forecast_data_first(s, q, m) ==
    /\ reqs[s].pc = "await"
    /\ reqs[s].op \in {"list", "health"}
    /\ q \in DOMAIN reqs[s].qs
    /\ reqs[s].qs[q].state = "pending"
    /\ LET r == reqs[s]
           total_count == IF q = "count" THEN m ELSE 0
           n_records == IF q = "data" THEN PageRows(m, r.limit, r.offset) ELSE 0
       IN IF r.op = "list"
          THEN Finish(s, r, FALSE, 200,
                      ForecastResponse(r, n_records, total_count))
          ELSE Finish(s, r, FALSE, 200,
                      [status |-> "healthy",
                       total_records_available |-> total_count,
                       cache_statistics |-> get_cache_stats(cache)])
    /\ UNCHANGED <<now, cache, hashseed, stored, bq, built, pool>>

\* One of the two gathered queries comes back over a filtered set of m
\* rows; the handler goes on when both have
Resume_get_forecast_data(s, q, m) ==
    /\ reqs[s].pc = "await"
    /\ reqs[s].op \in {"list", "health"}
    /\ q \in DOMAIN reqs[s].qs
    /\ reqs[s].qs[q].state = "pending"
    /\ LET r == reqs[s]
           result == IF q = "count" THEN m ELSE PageRows(m, r.limit, r.offset)
           qs == Answered(r.qs, q, result)
           total_count == qs["count"].result[1]
           n_records == qs["data"].result[1]
       IN IF ~AllOk(qs)
          THEN reqs' = [reqs EXCEPT ![s] = [r EXCEPT !.qs = qs]]
               /\ last' = NoResponse
          ELSE IF r.op = "list"
          THEN Finish(s, r, FALSE, 200,
                      ForecastResponse(r, n_records, total_count))
          ELSE Finish(s, r, FALSE, 200,
                      [status |-> "healthy",
                       total_records_available |-> total_count,
                       cache_statistics |-> get_cache_stats(cache)])
    /\ UNCHANGED <<now, cache, hashseed, stored, bq, built, pool>>

-----------------------------------------------------------------------------
(* GET /forecast/summary *)

\* summary_stats["performance_metrics"] = {...} in the router, on the
\* dictionary get_summary_stats returned: the very object the cache holds
\* under cache_key
AddPerformanceMetrics(c, cache_key) ==
    [c EXCEPT !.summary_stats[cache_key].performance_metrics = TRUE]

Handle_get_forecast_summary(s, filters) ==
    LET query_params == ForecastQuery(filters, SummaryLimit, 0)
        cache_key == SummaryKey(hashseed, query_params)
        cached_result == _get_cache(cache, now, cache_key, "summary_stats")
        r == [IdleReq EXCEPT !.op = "summary", !.filters = filters]
    IN /\ reqs[s].pc = "idle"
       /\ IF cached_result # Absent
          THEN LET c == AddPerformanceMetrics(
                            _get_cache_store(cache, now, cache_key,
                                             "summary_stats"),
                            cache_key)
               IN /\ cache' = c
                  /\ Finish(s, r, TRUE, 200, c.summary_stats[cache_key])
          ELSE /\ Suspend(s, r, [summary |-> BuildSummaryQuery(query_params)])
               /\ cache' = _get_cache_store(cache, now, cache_key,
                                            "summary_stats")
       /\ UNCHANGED <<now, hashseed, stored, bq, built, pool>>

Resume_get_summary_stats(s, row) ==
    /\ reqs[s].pc = "await"
    /\ reqs[s].op = "summary"
    /\ LET r == reqs[s]
           cache_key == SummaryKey(hashseed,
                            ForecastQuery(r.filters, SummaryLimit, 0))
           summary_data == SummaryData(row)
           c == AddPerformanceMetrics(
                    _set_cache(cache, now, cache_key, summary_data,
                               "summary_stats"),
                    cache_key)
       IN /\ cache' = c
          /\ stored' = Remember(stored, cache_key, "summary_stats",
                                summary_data, now, r)
          /\ Finish(s, r, FALSE, 200, c.summary_stats[cache_key])
    /\ UNCHANGED <<now, hashseed, bq, built, pool>>

-----------------------------------------------------------------------------
(* GET /forecast/unique-values/{column_name} and GET /forecast/unique-values *)

\* "if cached_result:" in place of "if cached_result is not None:"
is_not_None_truthy(cached_result) ==
    cached_result # Absent /\ cached_result[1] # <<>>

\* if cached_result is not None:
is_not_None(cached_result) == cached_result # Absent

allowed_columns ==
    {"site_id", "brand", "mh_segment", "mh_family", "mh_class", "mh_brick",
     "product_id", "model_used", "qty_group"}

\* The router without its allow-list test
ColumnAllowed_any(column_name) == TRUE

ColumnAllowed(column_name) == column_name \in allowed_columns

UniqueValuesResponse(column_name, unique_values) ==
    [column_name |-> column_name, unique_values |-> unique_values,
     count |-> Len(unique_values)]

Handle_get_unique_values(s, column_name) ==
    LET cache_key == UniqueKey(column_name)
        cached_result == _get_cache(cache, now, cache_key, "unique_values")
        r == [IdleReq EXCEPT !.op = "distinct", !.column = column_name]
    IN /\ reqs[s].pc = "idle"
       /\ IF ~ColumnAllowed(column_name)
          THEN Finish(s, r, FALSE, 400, "not supported")
          ELSE IF is_not_None(cached_result)
          THEN Finish(s, r, TRUE, 200,
                      UniqueValuesResponse(column_name, cached_result[1]))
          ELSE Suspend(s, r, [distinct |-> BuildDistinctQuery(column_name)])
       /\ cache' = IF ColumnAllowed(column_name)
                   THEN _get_cache_store(cache, now, cache_key, "unique_values")
                   ELSE cache
       /\ UNCHANGED <<now, hashseed, stored, bq, built, pool>>

StrValues(column, rows) == [i \in 1..Len(rows) |-> PyStr(column, rows[i])]

Resume_get_unique_values(s, rows) ==
    /\ reqs[s].pc = "await"
    /\ reqs[s].op = "distinct"
    /\ rows \in DistinctRows(reqs[s].column)
    /\ LET r == reqs[s]
           cache_key == UniqueKey(r.column)
           unique_values == StrValues(r.column, rows)
       IN /\ cache' = _set_cache(cache, now, cache_key, unique_values,
                                 "unique_values")
          /\ stored' = Remember(stored, cache_key, "unique_values",
                                unique_values, now, r)
          /\ Finish(s, r, FALSE, 200,
                    UniqueValuesResponse(r.column, unique_values))
    /\ UNCHANGED <<now, hashseed, bq, built, pool>>

\* get_all_unique_values over one column
AllUniqueColumns_site_only == <<"site_id">>

\* columns = ["site_id", "brand"]
AllUniqueColumns == <<"site_id", "brand">>

AllUniqueQueries ==
    [column \in Range(AllUniqueColumns) |-> BuildDistinctQuery(column)]

AllUniqueResponse(all_unique_values) ==
    [columns |-> [column \in DOMAIN all_unique_values |->
                    [unique_values |-> all_unique_values[column],
                     count |-> Len(all_unique_values[column])]],
     total_columns |-> Cardinality(DOMAIN all_unique_values)]

Handle_get_all_unique_values(s) ==
    LET cached_result == _get_cache(cache, now, AllUniqueKey, "unique_values")
        r == [IdleReq EXCEPT !.op = "distinct_all"]
    IN /\ reqs[s].pc = "idle"
       /\ IF cached_result # Absent
          THEN Finish(s, r, TRUE, 200, AllUniqueResponse(cached_result[1]))
          ELSE Suspend(s, r, AllUniqueQueries)
       /\ cache' = _get_cache_store(cache, now, AllUniqueKey, "unique_values")
       /\ UNCHANGED <<now, hashseed, stored, bq, built, pool>>

Resume_get_all_unique_values(s, column, rows) ==
    /\ reqs[s].pc = "await"
    /\ reqs[s].op = "distinct_all"
    /\ column \in DOMAIN reqs[s].qs
    /\ reqs[s].qs[column].state = "pending"
    /\ rows \in DistinctRows(column)
    /\ LET r == reqs[s]
           qs == Answered(r.qs, column, StrValues(column, rows))
           result == [col \in DOMAIN qs |-> qs[col].result[1]]
       IN IF ~AllOk(qs)
          THEN /\ reqs' = [reqs EXCEPT ![s] = [r EXCEPT !.qs = qs]]
               /\ last' = NoResponse
               /\ UNCHANGED <<cache, stored>>
          ELSE /\ cache' = _set_cache(cache, now, AllUniqueKey, result,
                                      "unique_values")
               /\ stored' = Remember(stored, AllUniqueKey, "unique_values",
                                     result, now, r)
               /\ Finish(s, r, FALSE, 200, AllUniqueResponse(result))
    /\ UNCHANGED <<now, hashseed, bq, built, pool>>

-----------------------------------------------------------------------------
(* A query fails at the warehouse, or its result is not there in 60 s *)

\* What the executor raises: the exception of client.query(), or the
\* TimeoutError of query_job.result(timeout=60)
ErrorClass(error) ==
    IF error = "timeout" THEN "TimeoutError" ELSE "GoogleAPIError"

ErrorMessage(error) ==
    IF error = "timeout" THEN "str(TimeoutError)" ELSE "str(GoogleAPIError)"

ExecutorError(error) ==
    [kind |-> ErrorClass(error), message |-> <<ErrorMessage(error)>>]

\* except Exception as e: raise Exception(f"Error ...: {str(e)}")
ServiceError(op, e) ==
    [kind |-> "Exception",
     message |-> <<CASE op \in {"list", "health"} ->
                        "Error fetching data from BigQuery: "
                     [] op = "summary" -> "Error fetching summary statistics: "
                     [] op = "distinct" -> "Error fetching unique values for {column_name}: "
                     [] op = "distinct_all" ->
                        "Error fetching unique values for all columns: ">>
                 \o e.message]

\* The health probe answering failures like the other endpoints
ErrorStatus_500(op) == 500

ErrorStatus(op) == IF op = "health" THEN 503 ELSE 500

\* except Exception as e: raise HTTPException(status_code=..., detail=...);
\* caught is the class of e, which the response does not show
RouterError(op, e) ==
    [kind |-> "HTTPException",
     caught |-> e.kind,
     status_code |-> ErrorStatus(op),
     detail |-> <<CASE op = "list" -> "Error fetching forecast data: "
                    [] op = "health" ->
                        "Service unhealthy - BigQuery connection failed: "
                    [] op = "summary" -> "Error fetching summary statistics: "
                    [] op = "distinct" -> "Error fetching unique values: "
                    [] op = "distinct_all" -> "Error fetching unique values: ">>
                \o e.message]

\* A failed attempt with a second try in place of the raise
QueryFails_retrying(s, q, error) ==
    /\ reqs[s].pc = "await"
    /\ q \in DOMAIN reqs[s].qs
    /\ reqs[s].qs[q].state = "pending"
    /\ reqs[s].qs[q].attempts < 3
    /\ reqs' = [reqs EXCEPT ![s].qs[q].attempts = @ + 1]
    /\ last' = NoResponse
    /\ UNCHANGED <<now, cache, hashseed, stored, bq, built, pool>>

\* A failure that leaves the time of the attempt under the key of the
\* request
QueryFails_stamping(s, q, error) ==
    /\ reqs[s].pc = "await"
    /\ q \in DOMAIN reqs[s].qs
    /\ reqs[s].qs[q].state = "pending"
    /\ LET raised == RouterError(reqs[s].op,
                        ServiceError(reqs[s].op, ExecutorError(error)))
           cache_key ==
                CASE reqs[s].op = "summary" ->
                        SummaryKey(hashseed,
                            ForecastQuery(reqs[s].filters, SummaryLimit, 0))
                  [] reqs[s].op = "distinct" -> UniqueKey(reqs[s].column)
                  [] OTHER -> AllUniqueKey
       IN /\ Finish(s, reqs[s], FALSE, raised.status_code, raised)
          /\ cache' = IF reqs[s].op \in {"summary", "distinct", "distinct_all"}
                      THEN [cache EXCEPT !.cache_timestamps =
                                            (cache_key :> now) @@ @]
                      ELSE cache
    /\ UNCHANGED <<now, hashseed, stored, bq, built, pool>>

QueryFails(s, q, error) ==
    /\ reqs[s].pc = "await"
    /\ q \in DOMAIN reqs[s].qs
    /\ reqs[s].qs[q].state = "pending"
    /\ LET raised == RouterError(reqs[s].op,
                        ServiceError(reqs[s].op, ExecutorError(error)))
       IN Finish(s, reqs[s], FALSE, raised.status_code, raised)
    /\ UNCHANGED <<now, cache, hashseed, stored, bq, built, pool>>

-----------------------------------------------------------------------------
(* GET /forecast/cache/stats and DELETE /forecast/cache *)

Handle_get_cache_stats(s) ==
    /\ reqs[s].pc = "idle"
    /\ Finish(s, [IdleReq EXCEPT !.op = "stats"], FALSE, 200,
              get_cache_stats(cache))
    /\ UNCHANGED <<now, cache, hashseed, stored, bq, built, pool>>

\* The router without its cache_type test
CacheTypeAccepted_any(cache_type) == TRUE

CacheTypeAccepted(cache_type) ==
    ~(Truthy(cache_type)
      /\ cache_type \notin {"unique_values", "summary_stats", "all"})

Handle_clear_cache(s, cache_type) ==
    LET r == [IdleReq EXCEPT !.op = "clear", !.cache_type = cache_type]
    IN /\ reqs[s].pc = "idle"
       /\ IF ~CacheTypeAccepted(cache_type)
          THEN /\ Finish(s, r, FALSE, 400, "invalid")
               /\ UNCHANGED <<cache, stored>>
          ELSE LET c == IF cache_type = "all"
                        THEN clear_cache(cache, None)
                        ELSE clear_cache(cache, cache_type)
               IN /\ cache' = c
                  /\ stored' = Forget(stored, cache_type)
                  /\ Finish(s, r, FALSE, 200, "success")
       /\ UNCHANGED <<now, hashseed, bq, built, pool>>

-----------------------------------------------------------------------------
(* Time passes *)

Tick ==
    /\ now < MaxTime
    /\ now' = now + TickSeconds
    /\ last' = NoResponse
    /\ UNCHANGED <<cache, reqs, hashseed, stored, bq, built, pool>>

-----------------------------------------------------------------------------
(* The query builder on its own: bq is any ForecastQuery, built the query  *)
(* last built from it                                                      *)

BuildQuery(kind) ==
    /\ kind \in {"paged_data", "count", "summary"}
    /\ LET query_params == ForecastQuery(bq, DefaultLimit, DefaultOffset)
           q == IF kind = "paged_data" THEN _build_optimized_query(query_params)
                ELSE IF kind = "count"
                THEN _build_optimized_count_query(query_params)
                ELSE BuildSummaryQuery(query_params)
       IN built' = Some([kind |-> kind, sql |-> q.sql, params |-> q.params,
                         where_clause |->
                            _build_parameterized_where_conditions(
                                query_params).where_clause])
    /\ UNCHANGED <<now, cache, reqs, last, hashseed, stored, bq, pool>>

-----------------------------------------------------------------------------
(* The wire type of a query parameter.  A value is <<class, text>>, its    *)
(* Python class and its repr.                                              *)

\* isinstance(value, cls): bool is a subclass of int, datetime of date
IsInstance(value, cls) ==
    \/ value[1] = cls
    \/ value[1] = "bool" /\ cls = "int"
    \/ value[1] = "datetime" /\ cls = "date"

\* The if/elif chain of run_query, in the order the code has it
ParamType(value) ==
    IF IsInstance(value, "str") THEN "STRING"
    ELSE IF IsInstance(value, "int") THEN "INT64"
    ELSE IF IsInstance(value, "float") THEN "FLOAT64"
    ELSE IF IsInstance(value, "bool") THEN "BOOL"
    ELSE IF IsInstance(value, "date") THEN "DATE"
    ELSE IF IsInstance(value, "datetime") THEN "DATETIME"
    ELSE "STRING"

\* bigquery.ScalarQueryParameter(key, param_type, value)
BindParameter(key, value) ==
    /\ built' = Some([kind |-> "parameter", key |-> key, value |-> value,
                      param_type |-> ParamType(value)])
    /\ UNCHANGED <<now, cache, reqs, last, hashseed, stored, bq, pool>>

-----------------------------------------------------------------------------
(* THREAD_POOL.  _execute_query_async hands the executor two tasks per     *)
(* query, one after the other: run_query, which calls client.query and     *)
(* returns the job it created, and wait_for_completion, which blocks in    *)
(* query_job.result.  A task waits in the executor's queue until one of    *)
(* the max_workers threads takes it.  The job runs at the warehouse from   *)
(* the return of client.query on, whether or not a thread holds it.  pool  *)
(* counts the queries at each point; a job is running or finished.  When   *)
(* _execute_query_async has returned the job, the calling coroutine reads  *)
(* its rows with job.result(), on the thread of the event loop.            *)

MaxQueries == 11        \* queries handed to _execute_query_async in all

NoJobs == [running |-> 0, finished |-> 0]

EmptyPool ==
    [submitted |-> 0,           \* calls of _execute_query_async so far
     queued_run |-> 0,          \* run_query waiting for a thread
     in_run |-> 0,              \* threads inside run_query
     created |-> NoJobs,        \* job returned, coroutine not yet resumed
     queued_wait |-> NoJobs,    \* wait_for_completion waiting for a thread
     in_wait |-> NoJobs,        \* threads inside wait_for_completion
     completed |-> 0,           \* wait_for_completion done, coroutine to resume
     reading |-> 0,             \* coroutines inside job.result(), reading rows
     returned |-> 0]            \* the rows are read, or the wait has raised

JobCount(jobs) == jobs.running + jobs.finished

\* Threads of the pool, if a thread stayed with its query from run_query
\* until wait_for_completion has returned
WorkersBusy_holding(p) ==
    p.in_run + JobCount(p.created) + JobCount(p.queued_wait)
        + JobCount(p.in_wait)

\* Threads of the pool running a task
WorkersBusy(p) == p.in_run + JobCount(p.in_wait)

\* Jobs created at the warehouse and not finished
JobsExecuting(p) == p.created.running + p.queued_wait.running + p.in_wait.running

\* Queries inside _execute_query_async
InFlight(p) ==
    p.queued_run + p.in_run + JobCount(p.created) + JobCount(p.queued_wait)
        + JobCount(p.in_wait) + p.completed + p.reading

\* A pool that starts a thread for every task
WorkerFree_unbounded(p) == TRUE

\* ThreadPoolExecutor(max_workers=10): a task is taken only by an idle thread
WorkerFree(p) == WorkersBusy(p) < THREAD_POOL_max_workers

PoolStep(p) ==
    /\ pool' = p
    /\ UNCHANGED <<now, cache, reqs, last, hashseed, stored, bq, built>>

\* The event loop runs one coroutine at a time: none while one of them is
\* inside a blocking call
EventLoopFree(p) == p.reading = 0

\* loop.run_in_executor(THREAD_POOL, run_query): the queue is unbounded
Submit_run_query ==
    /\ pool.submitted < MaxQueries
    /\ EventLoopFree(pool)
    /\ PoolStep([pool EXCEPT !.submitted = @ + 1, !.queued_run = @ + 1])

\* An idle thread takes run_query from the queue
Start_run_query ==
    /\ pool.queued_run > 0
    /\ WorkerFree(pool)
    /\ PoolStep([pool EXCEPT !.queued_run = @ - 1, !.in_run = @ + 1])

\* return self.client.query(...): the job exists, the thread is idle again
Return_run_query ==
    /\ pool.in_run > 0
    /\ PoolStep([pool EXCEPT !.in_run = @ - 1, !.created.running = @ + 1])

\* The warehouse finishes a job, wherever its query stands in the service
JobFinishes(phase) ==
    /\ phase \in {"created", "queued_wait", "in_wait"}
    /\ pool[phase].running > 0
    /\ PoolStep([pool EXCEPT ![phase].running = @ - 1,
                             ![phase].finished = @ + 1])

\* The coroutine resumes with query_job:
\* loop.run_in_executor(THREAD_POOL, wait_for_completion)
Submit_wait_for_completion(status) ==
    /\ status \in {"running", "finished"}
    /\ pool.created[status] > 0
    /\ EventLoopFree(pool)
    /\ PoolStep([pool EXCEPT !.created[status] = @ - 1,
                             !.queued_wait[status] = @ + 1])

\* An idle thread takes wait_for_completion from the queue
Start_wait_for_completion(status) ==
    /\ status \in {"running", "finished"}
    /\ pool.queued_wait[status] > 0
    /\ WorkerFree(pool)
    /\ PoolStep([pool EXCEPT !.queued_wait[status] = @ - 1,
                             !.in_wait[status] = @ + 1])

\* query_job.result(timeout=60) returns once the job has finished: the
\* thread is idle again
Return_wait_for_completion ==
    /\ pool.in_wait.finished > 0
    /\ PoolStep([pool EXCEPT !.in_wait.finished = @ - 1, !.completed = @ + 1])

\* query_job.result(timeout=60) raises after 60 seconds without a result;
\* the thread is idle again and the coroutine raises.  The job is not
\* cancelled: what it does at the warehouse from then on is not followed.
Timeout_wait_for_completion ==
    /\ pool.in_wait.running > 0
    /\ PoolStep([pool EXCEPT !.in_wait.running = @ - 1, !.returned = @ + 1])

\* The coroutine resumes, _execute_query_async returns query_job and the
\* caller reads the rows: list(job.result()), list(results)[0] or
\* [str(row[0]) for row in results].  The rows come from the warehouse
\* page by page, in calls that block the thread they are made on.
Read_rows_begin ==
    /\ pool.completed > 0
    /\ EventLoopFree(pool)
    /\ PoolStep([pool EXCEPT !.completed = @ - 1, !.reading = @ + 1])

Read_rows_end ==
    /\ pool.reading > 0
    /\ PoolStep([pool EXCEPT !.reading = @ - 1, !.returned = @ + 1])

\* The same, when the client already holds every row of the result
Read_rows_held ==
    /\ pool.completed > 0
    /\ EventLoopFree(pool)
    /\ PoolStep([pool EXCEPT !.completed = @ - 1, !.returned = @ + 1])

-----------------------------------------------------------------------------
(* Inputs *)

SiteS1 == [NoFilters EXCEPT !.site_id = "S1"]

Injection == "x' OR '1'='1"

\* Every ForecastQuery over absent, empty and non-empty strings, and absent
\* and present dates
StringInputs == {None, "", "S1"}
DateInputs == {None, "2024-01-01"}
AllFilters ==
    {filters \in [Range(FilterFields) -> StringInputs \cup DateInputs] :
        /\ \A i \in 1..Len(StringFields) : filters[StringFields[i]] \in StringInputs
        /\ \A i \in 1..Len(DateFields) : filters[DateFields[i]] \in DateInputs}

CacheTypeInputs == {None, "unique_values", "summary_stats", "all", "bogus"}

Init ==
    /\ now = 0
    /\ cache = EmptyCache
    /\ reqs = [s \in Slots |-> IdleReq]
    /\ last = NoResponse
    /\ hashseed = 1
    /\ stored = EmptyDict
    /\ bq = NoFilters
    /\ built = Absent
    /\ pool = EmptyPool

-----------------------------------------------------------------------------
(* Spec: two requests at a time through the cached operations, the cache   *)
(* administration and the clock                                            *)

Next ==
    \/ \E s \in Slots : Handle_get_forecast_summary(s, SiteS1)
    \/ \E s \in Slots, row \in SummaryRows : Resume_get_summary_stats(s, row)
    \/ \E s \in Slots, column \in {"site_id", "bad_column"} :
            Handle_get_unique_values(s, column)
    \/ \E s \in Slots, rows \in DistinctRows("site_id") :
            Resume_get_unique_values(s, rows)
    \/ \E s \in Slots : Handle_get_all_unique_values(s)
    \/ \E s \in Slots, column \in Range(AllUniqueColumns),
          rows \in DistinctRows("site_id") \cup DistinctRows("brand") :
            Resume_get_all_unique_values(s, column, rows)
    \/ \E s \in Slots, q \in {"summary", "distinct", "site_id", "brand"},
          error \in Errors :
            QueryFails(s, q, error)
    \/ \E s \in Slots : Handle_get_cache_stats(s)
    \/ \E s \in Slots, cache_type \in CacheTypeInputs :
            Handle_clear_cache(s, cache_type)
    \/ Tick

Spec == Init /\ [][Next]_vars

-----------------------------------------------------------------------------
(* SpecSummary: summaries over two filters, in a process of either hash    *)
(* seed                                                                    *)

InitSummary ==
    /\ now = 0
    /\ cache = EmptyCache
    /\ reqs = [s \in Slots |-> IdleReq]
    /\ last = NoResponse
    /\ hashseed \in {1, 2}
    /\ stored = EmptyDict
    /\ bq = NoFilters
    /\ built = Absent
    /\ pool = EmptyPool

NextSummary ==
    \/ \E s \in Slots, filters \in {NoFilters, SiteS1} :
            Handle_get_forecast_summary(s, filters)
    \/ \E s \in Slots, row \in SummaryRows : Resume_get_summary_stats(s, row)
    \/ \E s \in Slots, error \in Errors : QueryFails(s, "summary", error)
    \/ \E s \in Slots, cache_type \in {"unique_values", "summary_stats", "all"} :
            Handle_clear_cache(s, cache_type)
    \/ Tick

SpecSummary == InitSummary /\ [][NextSummary]_vars

-----------------------------------------------------------------------------
(* SpecList: two requests at a time through the listing and the health     *)
(* probe, next to summaries that fill the cache                            *)

NextList ==
    \/ \E s \in Slots, filters \in {NoFilters, SiteS1},
          p \in {<<50, 0>>, <<50, 100>>} :
            Handle_get_forecast_data(s, filters, p[1], p[2])
    \/ \E s \in Slots : Handle_health_check(s)
    \/ \E s \in Slots, q \in {"data", "count"}, m \in TableCounts :
            Resume_get_forecast_data(s, q, m)
    \/ \E s \in Slots : Handle_get_forecast_summary(s, SiteS1)
    \/ \E s \in Slots, row \in SummaryRows : Resume_get_summary_stats(s, row)
    \/ \E s \in Slots, q \in {"data", "count", "summary"}, error \in Errors :
            QueryFails(s, q, error)
    \/ \E s \in Slots : Handle_clear_cache(s, "all")

SpecList == Init /\ [][NextList]_vars

-----------------------------------------------------------------------------
(* SpecPaging: one listing at a time, over page bounds at and around the   *)
(* limits the router accepts                                               *)

LimitInputs == {0, 1, 2, 50, 1000, 1001}
OffsetInputs == {0, 1, 49, 50, 99, 100, 150}
TotalInputs == {0, 1, 50, 51, 120, 150, 1001}

NextPaging ==
    \/ \E limit \in LimitInputs, offset \in OffsetInputs :
            Handle_get_forecast_data(1, SiteS1, limit, offset)
    \/ \E q \in {"data", "count"}, m \in TotalInputs :
            Resume_get_forecast_data(1, q, m)
    \/ \E q \in {"data", "count"}, error \in Errors : QueryFails(1, q, error)

SpecPaging == Init /\ [][NextPaging]_vars

-----------------------------------------------------------------------------
(* SpecQueries: one request at a time through every operation that sends   *)
(* SQL to the warehouse, with hostile values among the inputs              *)

QueryFilterInputs ==
    {NoFilters, SiteS1,
     [NoFilters EXCEPT !.site_id = Injection, !.mh_segment = ""],
     [f \in Range(FilterFields) |->
        IF f \in Range(DateFields) THEN "2024-01-01" ELSE Injection]}

QueryColumnInputs ==
    {"site_id", "qty_group", "bad_column", "site_id; DROP TABLE t", Injection}

NextQueries ==
    \/ \E filters \in QueryFilterInputs, p \in {<<50, 0>>, <<1000, 100>>} :
            Handle_get_forecast_data(1, filters, p[1], p[2])
    \/ Handle_health_check(1)
    \/ \E q \in {"data", "count"}, m \in TableCounts :
            Resume_get_forecast_data(1, q, m)
    \/ \E filters \in QueryFilterInputs : Handle_get_forecast_summary(1, filters)
    \/ \E row \in SummaryRows : Resume_get_summary_stats(1, row)
    \/ \E column \in QueryColumnInputs : Handle_get_unique_values(1, column)
    \/ \E column \in {"site_id", "qty_group"} : \E rows \in DistinctRows(column) :
            /\ reqs[1].column = column
            /\ Resume_get_unique_values(1, rows)
    \/ Handle_get_all_unique_values(1)
    \/ \E column \in Range(AllUniqueColumns),
          rows \in DistinctRows("site_id") \cup DistinctRows("brand") :
            Resume_get_all_unique_values(1, column, rows)
    \/ Handle_clear_cache(1, "all")
    \/ \E q \in {"data", "count", "summary", "distinct", "site_id", "brand"},
          error \in Errors :
            QueryFails(1, q, error)

SpecQueries == Init /\ [][NextQueries]_vars

-----------------------------------------------------------------------------
(* SpecUnique: two requests at a time through the two distinct-values      *)
(* operations, the clears and the clock                                    *)

NextUnique ==
    \/ \E s \in Slots : Handle_get_unique_values(s, "site_id")
    \/ \E s \in Slots, rows \in DistinctRows("site_id") :
            Resume_get_unique_values(s, rows)
    \/ \E s \in Slots : Handle_get_all_unique_values(s)
    \/ \E s \in Slots, column \in Range(AllUniqueColumns),
          rows \in DistinctRows("site_id") \cup DistinctRows("brand") :
            Resume_get_all_unique_values(s, column, rows)
    \/ \E s \in Slots, q \in {"distinct", "site_id", "brand"}, error \in Errors :
            QueryFails(s, q, error)
    \/ \E s \in Slots, cache_type \in {"unique_values", "all"} :
            Handle_clear_cache(s, cache_type)
    \/ Tick

SpecUnique == Init /\ [][NextUnique]_vars

-----------------------------------------------------------------------------
(* SpecAdmin: one request at a time through the cached operations and the  *)
(* cache administration, all within one instant                            *)

NextAdmin ==
    \/ Handle_get_forecast_summary(1, SiteS1)
    \/ \E row \in SummaryRows : Resume_get_summary_stats(1, row)
    \/ \E column \in {"site_id", "brand"} : Handle_get_unique_values(1, column)
    \/ \E column \in {"site_id", "brand"} : \E rows \in DistinctRows(column) :
            /\ reqs[1].column = column
            /\ Resume_get_unique_values(1, rows)
    \/ Handle_get_all_unique_values(1)
    \/ \E column \in Range(AllUniqueColumns),
          rows \in DistinctRows("site_id") \cup DistinctRows("brand") :
            Resume_get_all_unique_values(1, column, rows)
    \/ Handle_get_cache_stats(1)
    \/ \E cache_type \in CacheTypeInputs : Handle_clear_cache(1, cache_type)

SpecAdmin == Init /\ [][NextAdmin]_vars

-----------------------------------------------------------------------------
(* SpecParams: the parameter binding over values of every class            *)

ParamValues ==
    {<<"str", "''">>, <<"str", "'S1'">>, <<"str", "'2024-01-01'">>,
     <<"int", "0">>, <<"int", "1">>, <<"int", "1000">>,
     <<"float", "0.0">>, <<"float", "0.5">>, <<"float", "1e9">>,
     <<"bool", "True">>, <<"bool", "False">>,
     <<"date", "date(2024, 1, 1)">>, <<"date", "date(2024, 12, 31)">>,
     <<"datetime", "datetime(2024, 1, 1, 0, 0)">>,
     <<"datetime", "datetime(2024, 12, 31, 23, 59)">>,
     <<"NoneType", "None">>, <<"Decimal", "Decimal('1.5')">>,
     <<"bytes", "b'S1'">>, <<"list", "[]">>, <<"list", "['S1']">>}

ParamKeys ==
    {"site_id", "brand", "limit", "offset", "start_date", "end_date"}

NextParams ==
    \E key \in ParamKeys, value \in ParamValues : BindParameter(key, value)

SpecParams == Init /\ [][NextParams]_vars

-----------------------------------------------------------------------------
(* The executor on its own: MaxQueries queries through THREAD_POOL *)

NextPool ==
    \/ Submit_run_query
    \/ Start_run_query
    \/ Return_run_query
    \/ \E phase \in {"created", "queued_wait", "in_wait"} : JobFinishes(phase)
    \/ \E status \in {"running", "finished"} : Submit_wait_for_completion(status)
    \/ \E status \in {"running", "finished"} : Start_wait_for_completion(status)
    \/ Return_wait_for_completion
    \/ Timeout_wait_for_completion
    \/ Read_rows_begin
    \/ Read_rows_end
    \/ Read_rows_held

SpecPool == Init /\ [][NextPool]_vars

\* What goes on without a new request: the threads, the event loop and
\* the warehouse
PoolProgress ==
    \/ Start_run_query
    \/ Return_run_query
    \/ \E phase \in {"created", "queued_wait", "in_wait"} : JobFinishes(phase)
    \/ \E status \in {"running", "finished"} : Submit_wait_for_completion(status)
    \/ \E status \in {"running", "finished"} : Start_wait_for_completion(status)
    \/ Return_wait_for_completion
    \/ Timeout_wait_for_completion
    \/ Read_rows_begin
    \/ Read_rows_end
    \/ Read_rows_held

\* The scheduling the executor, the event loop and the warehouse give:
\* while a thread can take a task or return from one, a coroutine can be
\* resumed or a job can finish or time out, one of them does
PoolFairness == WF_vars(PoolProgress)

SpecPoolFair == Init /\ [][NextPool]_vars /\ PoolFairness

-----------------------------------------------------------------------------
(* SpecBuilder: the three builders over every ForecastQuery                *)

InitBuilder ==
    /\ now = 0
    /\ cache = EmptyCache
    /\ reqs = [s \in Slots |-> IdleReq]
    /\ last = NoResponse
    /\ hashseed = 1
    /\ stored = EmptyDict
    /\ bq \in AllFilters
    /\ built = Absent
    /\ pool = EmptyPool

NextBuilder == \E kind \in {"paged_data", "count", "summary"} : BuildQuery(kind)

SpecBuilder == InitBuilder /\ [][NextBuilder]_vars

-----------------------------------------------------------------------------
(* What a request observes of the cache *)

CachedOps == {"summary", "distinct", "distinct_all"}

CategoryOf(op) == IF op = "summary" THEN "summary_stats" ELSE "unique_values"

\* The cache key the operation of request or response r reads and writes
RequestKey(r) ==
    CASE r.op = "summary" ->
            SummaryKey(hashseed, ForecastQuery(r.filters, SummaryLimit, 0))
      [] r.op = "distinct" -> UniqueKey(r.column)
      [] r.op = "distinct_all" -> AllUniqueKey

AggregateFields ==
    {"total_records", "unique_sites", "unique_brands", "unique_products",
     "unique_forecast_runs", "avg_actual_qty", "avg_predicted_qty",
     "total_actual_qty", "total_predicted_qty", "min_forecast_week",
     "max_forecast_week"}

Aggregate(d) == [f \in AggregateFields |-> d[f]]

\* The cached value a response carries
Served(resp) ==
    CASE resp.op = "summary" -> Aggregate(resp.body[1])
      [] resp.op = "distinct" -> resp.body[1].unique_values
      [] resp.op = "distinct_all" ->
            [col \in DOMAIN resp.body[1].columns |->
                resp.body[1].columns[col].unique_values]

\* The value of the last set under key k
StoredValue(k) ==
    IF stored[k].cache_type = "summary_stats"
    THEN Aggregate(stored[k].data[1])
    ELSE stored[k].data[1]

\* Key k was set in category c less than 300 seconds ago, and category c
\* has not been cleared since
Fresh(k, c) ==
    /\ k \in DOMAIN stored
    /\ stored[k].cache_type = c
    /\ now - stored[k].at < 300

\* resp answers a cached operation from the cache: no query was issued
HitResponse(resp) ==
    resp.op \in CachedOps /\ resp.status = 200 /\ resp.issued = 0

\* In this step the request in slot s starts a cached operation and takes
\* the miss path
MissStart(s) ==
    reqs[s].pc = "idle" /\ reqs'[s].pc = "await" /\ reqs'[s].op \in CachedOps

\* The category a cache key belongs to, by the operation that writes it
KeyCategory(k) == IF k[1] = "summary_" THEN "summary_stats" ELSE "unique_values"

-----------------------------------------------------------------------------
(* Claims about the cache store *)

\* C1: cache round-trip. After set(k, v, c), a get(k, c) made while fewer
\* than 300 seconds have passed since that set, with no clear of c and no
\* other set on k in between, finds the entry (the request does not take
\* the miss path) and returns exactly v.
C1_RoundTrip ==
    [][ /\ (HitResponse(last') /\ Fresh(RequestKey(last'), CategoryOf(last'.op)))
            => Served(last') = StoredValue(RequestKey(last'))
        /\ \A s \in Slots :
            MissStart(s)
                => ~Fresh(RequestKey(reqs'[s]), CategoryOf(reqs'[s].op)) ]_vars

\* A distinct_all request answered from the cache 150 seconds after the
\* value was stored, with the stored value
C1_Witness ==
    /\ HitResponse(last)
    /\ last.op = "distinct_all"
    /\ Fresh(AllUniqueKey, "unique_values")
    /\ now - stored[AllUniqueKey].at = TickSeconds
    /\ Served(last) = StoredValue(AllUniqueKey)
    /\ Served(last)["site_id"] # <<>>

\* C2: TTL validity. An entry is valid iff now - created_at < 300: a cached
\* operation is answered without a query only when its key was set less
\* than 300 seconds ago and not cleared since; so when the key was never
\* set, or its entry is 300 seconds old or older, summary, distinct and
\* distinct_all take the miss path, and on it they issue their warehouse
\* queries (one, one and two).
C2_TTLValidity ==
    [][ /\ HitResponse(last')
            => Fresh(RequestKey(last'), CategoryOf(last'.op))
        /\ \A s \in Slots :
            MissStart(s)
                => /\ Cardinality(DOMAIN reqs'[s].qs)
                        = (IF reqs'[s].op = "distinct_all" THEN 2 ELSE 1)
                   /\ \A q \in DOMAIN reqs'[s].qs :
                        reqs'[s].qs[q].state = "pending" ]_vars

\* A summary waiting for its query while the entry under its key is exactly
\* 300 seconds old
C2_Witness ==
    \E s \in Slots :
        /\ reqs[s].pc = "await"
        /\ reqs[s].op = "summary"
        /\ reqs[s].qs["summary"].state = "pending"
        /\ RequestKey(reqs[s]) \in DOMAIN cache.summary_stats
        /\ RequestKey(reqs[s]) \in DOMAIN stored
        /\ now - stored[RequestKey(reqs[s])].at = 300

\* C3: after clear(category) with category unique_values or summary_stats,
\* the category holds no entries and no timestamp remains for a key of that
\* category, so total_cached_items counts only the entries still cached;
\* after clear(all) both categories and the timestamp map are empty.
C3_ClearRemovesTimestamps ==
    (last.op = "clear" /\ last.status = 200)
        => IF last.cache_type \in {"unique_values", "summary_stats"}
           THEN /\ cache[last.cache_type] = EmptyDict
                /\ \A k \in DOMAIN cache.cache_timestamps :
                        KeyCategory(k) # last.cache_type
                /\ get_cache_stats(cache).total_cached_items
                        = get_cache_stats(cache).unique_values_cached
                          + get_cache_stats(cache).summary_stats_cached
           ELSE cache = EmptyCache

\* C4: clear("unique_values") leaves every summary_stats entry and its
\* timestamp unchanged, so a summary that was a valid hit before the clear
\* is one after it; clear("summary_stats") does the same for unique_values.
C4_ClearFrame ==
    [][ (/\ last'.op = "clear"
         /\ last'.status = 200
         /\ last'.cache_type \in {"unique_values", "summary_stats"})
            => LET other == IF last'.cache_type = "unique_values"
                            THEN "summary_stats" ELSE "unique_values"
               IN /\ cache'[other] = cache[other]
                  /\ \A k \in DOMAIN cache[other] :
                        /\ k \in DOMAIN cache.cache_timestamps
                        /\ k \in DOMAIN cache'.cache_timestamps
                        /\ cache'.cache_timestamps[k] = cache.cache_timestamps[k]
                        /\ _get_cache(cache', now', k, other)
                            = _get_cache(cache, now, k, other) ]_vars

\* unique_values has just been cleared after holding an entry, and a
\* summary stored before the clear is still a valid entry
C4_Witness ==
    /\ last.op = "clear"
    /\ last.status = 200
    /\ last.cache_type = "unique_values"
    /\ \E k \in DOMAIN cache.cache_timestamps : KeyCategory(k) = "unique_values"
    /\ \E k \in DOMAIN cache.summary_stats :
            /\ Fresh(k, "summary_stats")
            /\ _get_cache(cache, now, k, "summary_stats") # Absent

\* The keys under which a summary called with these filters stored its
\* aggregate less than 300 seconds ago, summary_stats not cleared since and
\* no later set under the key
StoredFor(filters) ==
    {k \in DOMAIN stored : /\ stored[k].cache_type = "summary_stats"
                           /\ stored[k].filters = filters
                           /\ now - stored[k].at < 300}

\* C5: summary idempotence. A summary called after a summary with the same
\* filter has returned, with no clear in between and within the TTL (the
\* two in sequence: no other request stored under the key in between), is
\* a cache hit: it issues no query, so the two calls issue at most one,
\* and it returns the aggregate the first call stored.
C5_SummaryIdempotent ==
    [][ /\ \A s \in Slots :
            (MissStart(s) /\ reqs'[s].op = "summary")
                => StoredFor(reqs'[s].filters) = {}
        /\ (HitResponse(last') /\ last'.op = "summary")
                => \A k \in StoredFor(last'.filters) :
                        /\ stored[k].issued + last'.issued <= 1
                        /\ Aggregate(last'.body[1])
                            = Aggregate(stored[k].data[1]) ]_vars

\* A second summary with the filter of the first, answered from the cache
\* 150 seconds after the first stored a non-empty aggregate
C5_Witness ==
    /\ HitResponse(last)
    /\ last.op = "summary"
    /\ last.filters = SiteS1
    /\ Fresh(RequestKey(last), "summary_stats")
    /\ stored[RequestKey(last)].filters = SiteS1
    /\ stored[RequestKey(last)].issued = 1
    /\ now - stored[RequestKey(last)].at = TickSeconds
    /\ last.body[1].total_records = 120

\* C6: a distinct-values request for a column outside the nine allowed is
\* answered 400, issues no warehouse query and leaves the cache unchanged,
\* whatever the cache holds.
C6_BadColumnRejected ==
    [][ /\ (last'.op = "distinct"
            /\ last'.column \notin
                {"site_id", "brand", "mh_segment", "mh_family", "mh_class",
                 "mh_brick", "product_id", "model_used", "qty_group"})
                => /\ last'.status = 400
                   /\ last'.issued = 0
                   /\ cache' = cache
        /\ \A s \in Slots :
            reqs'[s].op = "distinct"
                => reqs'[s].column \in
                    {"site_id", "brand", "mh_segment", "mh_family", "mh_class",
                     "mh_brick", "product_id", "model_used", "qty_group"} ]_vars

\* bad_column has just been rejected while the cache holds entries of both
\* categories
C6_Witness ==
    /\ last.op = "distinct"
    /\ last.column = "bad_column"
    /\ last.status = 400
    /\ cache.unique_values # EmptyDict
    /\ cache.summary_stats # EmptyDict

-----------------------------------------------------------------------------
(* Claims about the queries *)

\* The predicate the specification gives each field: equality for the nine
\* string fields, >= for start_date, <= for end_date
ExpectedPredicate(f) ==
    CASE f = "site_id" -> "site_id = @site_id"
      [] f = "brand" -> "brand = @brand"
      [] f = "mh_segment" -> "mh_segment = @mh_segment"
      [] f = "mh_family" -> "mh_family = @mh_family"
      [] f = "mh_class" -> "mh_class = @mh_class"
      [] f = "mh_brick" -> "mh_brick = @mh_brick"
      [] f = "product_id" -> "product_id = @product_id"
      [] f = "forecast_run_id" -> "forecast_run_id = @forecast_run_id"
      [] f = "model_used" -> "model_used = @model_used"
      [] f = "start_date" -> "forecast_week >= @start_date"
      [] f = "end_date" -> "forecast_week <= @end_date"

\* seq holds part as a run of consecutive elements
Contains(seq, part) ==
    \E i \in 0..(Len(seq) - Len(part)) :
        \A j \in 1..Len(part) : seq[i + j] = part[j]

\* C7: for every filter (values absent, empty and non-empty), the WHERE
\* clause of the paged-data, count and summary queries holds exactly one
\* predicate per field that is not absent, joined by AND, and there is no
\* WHERE clause when every field is absent.
C7_OnePredicatePerField ==
    built # Absent
        => LET present == SelectSeq(FilterFields, LAMBDA f : bq[f] # None)
               predicates == [i \in 1..Len(present) |->
                                Lit(ExpectedPredicate(present[i]))]
               expected == IF Len(present) = 0 THEN <<>>
                           ELSE <<Lit(" WHERE ")>>
                                \o Join(predicates, Lit(" AND "))
           IN /\ built[1].where_clause = expected
              /\ Contains(built[1].sql, expected)
              /\ Len(present) = 0 => Lit(" WHERE ") \notin Range(built[1].sql)

NineColumns ==
    {"site_id", "brand", "mh_segment", "mh_family", "mh_class", "mh_brick",
     "product_id", "model_used", "qty_group"}

\* C8: no SQL text sent to the warehouse by list, summary, distinct or
\* distinct_all holds a value the caller supplied. The only interpolated
\* pieces are the table reference and, in a distinct query, a column of the
\* nine allowed; no piece of text equals a filter value, the limit or the
\* offset; every parameter carries the request's value and has its named
\* placeholder in the text.
C8_NoCallerValueInSQL ==
    \A s \in Slots :
        (reqs[s].pc = "await"
         /\ reqs[s].op \in {"list", "summary", "distinct", "distinct_all"})
        => \A q \in DOMAIN reqs[s].qs :
            LET r == reqs[s]
                sql == r.qs[q].sql
                params == r.qs[q].params
            IN /\ \A i \in 1..Len(sql) :
                    /\ sql[i].kind = "interp"
                        => \/ sql[i].text = TableRef
                           \/ /\ r.op \in {"distinct", "distinct_all"}
                              /\ sql[i].text \in NineColumns
                    /\ \A f \in Range(FilterFields) :
                        r.filters[f] # None => sql[i].text # r.filters[f]
                    /\ r.op = "list"
                        => sql[i].text \notin {ToString(r.limit),
                                               ToString(r.offset)}
               /\ \A name \in DOMAIN params :
                    IF name \in {"limit", "offset"}
                    THEN /\ params[name] = r[name]
                         /\ Lit(" LIMIT @limit OFFSET @offset") \in Range(sql)
                    ELSE /\ params[name] = r.filters[name]
                         /\ Lit(ExpectedPredicate(name)) \in Range(sql)
               /\ (r.op = "list" /\ q = "data")
                    => {"limit", "offset"} \subseteq DOMAIN params

\* A list request whose every string filter is an injection attempt waits
\* for its data query, the value being in the parameters
C8_Witness ==
    /\ reqs[1].pc = "await"
    /\ reqs[1].op = "list"
    /\ reqs[1].filters["site_id"] = Injection
    /\ reqs[1].filters["model_used"] = Injection
    /\ reqs[1].qs["data"].state = "pending"
    /\ reqs[1].qs["data"].params["site_id"] = Injection
    /\ reqs[1].qs["data"].params["limit"] = 1000

\* C9: pagination arithmetic of the list response. For offset >= 0, limit
\* in 1..1000 and any total, has_next is true iff offset + limit < total,
\* page is the p >= 1 with (p - 1) * limit <= offset < p * limit, that is
\* floor(offset / limit) + 1, and page_size is limit; offset 0, limit 50,
\* total 120 gives page 1 and has_next, offset 100, limit 50, total 120
\* gives no next page.
C9_Pagination ==
    (last.op = "list" /\ last.status = 200)
        => LET b == last.body[1]
           IN /\ last.limit \in 1..1000
              /\ last.offset >= 0
              /\ b.has_next <=> (last.offset + last.limit < b.total_records)
              /\ b.page >= 1
              /\ (b.page - 1) * last.limit <= last.offset
              /\ last.offset < b.page * last.limit
              /\ b.page_size = last.limit
              /\ (last.offset = 0 /\ last.limit = 50 /\ b.total_records = 120)
                    => (b.page = 1 /\ b.has_next)
              /\ (last.offset = 100 /\ last.limit = 50 /\ b.total_records = 120)
                    => ~b.has_next

\* The last page of 120 rows in pages of 50
C9_Witness ==
    /\ last.op = "list"
    /\ last.status = 200
    /\ last.offset = 100
    /\ last.limit = 50
    /\ last.body[1].total_records = 120
    /\ last.body[1].page = 3
    /\ last.body[1].data = 20
    /\ ~last.body[1].has_next

\* C10: list is never cached. Every list call, also each of two concurrent
\* ones with the same filter, starts by issuing its own paged-data query
\* and its own count query whatever the cache holds, is never answered
\* without them, and no step of a list request changes the cache.
C10_ListNeverCached ==
    [][ /\ \A s \in Slots :
            /\ (reqs[s].pc = "idle" /\ reqs'[s].op = "list")
                => /\ DOMAIN reqs'[s].qs = {"data", "count"}
                   /\ \A q \in {"data", "count"} :
                        reqs'[s].qs[q].state = "pending"
                   /\ Lit(" LIMIT @limit OFFSET @offset")
                        \in Range(reqs'[s].qs["data"].sql)
                   /\ Lit("SELECT COUNT(*) as total_count FROM ")
                        \notin Range(reqs'[s].qs["data"].sql)
                   /\ Lit("SELECT COUNT(*) as total_count FROM ")
                        \in Range(reqs'[s].qs["count"].sql)
            /\ ((reqs[s].op = "list" \/ reqs'[s].op = "list")
                /\ reqs'[s] # reqs[s]
                /\ \A o \in Slots \ {s} : reqs'[o] = reqs[o])
                => cache' = cache
        /\ last'.op = "list"
            => /\ ~last'.hit
               /\ last'.issued = 2
               /\ cache' = cache ]_vars

\* Two list requests with the same filter in flight at once, each with its
\* two queries pending, while the cache holds a summary
C10_Witness ==
    /\ \A s \in Slots :
        /\ reqs[s].op = "list"
        /\ reqs[s].filters = SiteS1
        /\ reqs[s].offset = 0
        /\ \A q \in {"data", "count"} : reqs[s].qs[q].state = "pending"
    /\ cache.summary_stats # EmptyDict

-----------------------------------------------------------------------------
(* Claims about the distinct-values operations *)

\* C11: distinct(column) caching. On a miss distinct(column) issues one
\* warehouse query, sent once, and when it returns stores the list under
\* key "unique_" + column in unique_values, with the current time as its
\* timestamp; a later distinct(column) within the TTL and with no clear in
\* between does not take the miss path and returns the stored list, also
\* when that list is empty.
C11_DistinctCaching ==
    [][ /\ \A s \in Slots :
            (MissStart(s) /\ reqs'[s].op = "distinct")
                => /\ DOMAIN reqs'[s].qs = {"distinct"}
                   /\ reqs'[s].qs["distinct"].state = "pending"
                   /\ reqs'[s].qs["distinct"].attempts = 1
                   /\ Interp(reqs'[s].column)
                        \in Range(reqs'[s].qs["distinct"].sql)
                   /\ ~Fresh(<<"unique_", reqs'[s].column>>, "unique_values")
        /\ (last'.op = "distinct" /\ last'.status = 200 /\ last'.issued = 1)
            => LET k == <<"unique_", last'.column>>
               IN /\ k \in DOMAIN cache'.unique_values
                  /\ cache'.unique_values[k] = last'.body[1].unique_values
                  /\ cache'.cache_timestamps[k] = now'
                  /\ k \notin DOMAIN cache'.summary_stats
        /\ (HitResponse(last') /\ last'.op = "distinct"
            /\ Fresh(<<"unique_", last'.column>>, "unique_values"))
            => last'.body[1].unique_values
                = stored[<<"unique_", last'.column>>].data[1] ]_vars

\* distinct(site_id) answered from the cache with the empty list stored
\* 150 seconds earlier
C11_Witness ==
    /\ HitResponse(last)
    /\ last.op = "distinct"
    /\ last.column = "site_id"
    /\ Fresh(<<"unique_", "site_id">>, "unique_values")
    /\ now - stored[<<"unique_", "site_id">>].at = TickSeconds
    /\ stored[<<"unique_", "site_id">>].data[1] = <<>>
    /\ last.body[1].unique_values = <<>>
    /\ last.body[1].count = 0

\* C12: distinct_all. On a miss it issues exactly two distinct queries, for
\* site_id and for brand, both pending before either result is awaited; it
\* answers only in the step in which the second of them completes, with a
\* mapping whose keys are exactly site_id and brand, and stores that
\* mapping as one entry under "all_unique_values"; a later distinct_all
\* within the TTL and with no clear does not take the miss path.
C12_DistinctAll ==
    [][ /\ \A s \in Slots :
            /\ (MissStart(s) /\ reqs'[s].op = "distinct_all")
                => /\ DOMAIN reqs'[s].qs = {"site_id", "brand"}
                   /\ \A column \in {"site_id", "brand"} :
                        /\ reqs'[s].qs[column].state = "pending"
                        /\ Interp(column) \in Range(reqs'[s].qs[column].sql)
                   /\ ~Fresh(<<"all_unique_values", "">>, "unique_values")
            /\ (/\ reqs[s].op = "distinct_all"
                /\ reqs'[s].op = "distinct_all"
                /\ reqs'[s] # reqs[s])
                => /\ last' = NoResponse
                   /\ cache' = cache
        /\ (last'.op = "distinct_all" /\ last'.status = 200 /\ last'.issued # 0)
            => LET k == <<"all_unique_values", "">>
                   mapping == [column \in DOMAIN last'.body[1].columns |->
                                last'.body[1].columns[column].unique_values]
               IN /\ last'.issued = 2
                  /\ \E s \in Slots :
                        /\ reqs[s].op = "distinct_all"
                        /\ reqs'[s].pc = "idle"
                        /\ Cardinality({q \in DOMAIN reqs[s].qs :
                                reqs[s].qs[q].state = "pending"}) = 1
                  /\ DOMAIN mapping = {"site_id", "brand"}
                  /\ last'.body[1].total_columns = 2
                  /\ k \in DOMAIN cache'.unique_values
                  /\ cache'.unique_values[k] = mapping
                  /\ cache'.cache_timestamps[k] = now'
                  /\ DOMAIN cache'.unique_values
                        \subseteq DOMAIN cache.unique_values \cup {k}
        /\ (HitResponse(last') /\ last'.op = "distinct_all"
            /\ Fresh(<<"all_unique_values", "">>, "unique_values"))
            => Served(last') = stored[<<"all_unique_values", "">>].data[1] ]_vars

\* distinct_all has just answered from its two queries and stored the
\* mapping, next to an entry of distinct(site_id)
C12_Witness ==
    /\ last.op = "distinct_all"
    /\ last.status = 200
    /\ last.issued = 2
    /\ DOMAIN cache.unique_values
        = {<<"all_unique_values", "">>, <<"unique_", "site_id">>}
    /\ cache.unique_values[<<"all_unique_values", "">>]["site_id"]
        = <<"S1", "S2">>
    /\ cache.cache_timestamps[<<"all_unique_values", "">>] = now
    /\ now = TickSeconds

-----------------------------------------------------------------------------
(* Claims about failures *)

PendingQueries(r) == {q \in DOMAIN r.qs : r.qs[q].state = "pending"}

\* C13: any failure during the health probe, at the warehouse or by
\* timeout, with none or one of its two queries already answered, is
\* reported as HTTP 503, never as 500 and never as a healthy response; the
\* probe answers 200 only in the step that completes its second query.
C13_HealthFailure503 ==
    [][ \A s \in Slots :
            (reqs[s].op = "health" /\ reqs'[s].pc = "idle")
                => /\ last'.op = "health"
                   /\ last'.status \in {200, 503}
                   /\ Cardinality(PendingQueries(reqs[s])) = 2
                        => last'.status = 503
                   /\ IF "detail" \in DOMAIN last'.body[1]
                      THEN /\ last'.status = 503
                           /\ last'.body[1].status_code = 503
                           /\ \E error \in {"upstream", "timeout"} :
                                ErrorMessage(error)
                                    \in Range(last'.body[1].detail)
                      ELSE /\ last'.status = 200
                           /\ last'.body[1].status = "healthy"
                           /\ Cardinality(PendingQueries(reqs[s])) = 1 ]_vars

\* The probe has just answered 503 for a timeout
C13_Witness ==
    /\ last.op = "health"
    /\ last.status = 503
    /\ last.body[1].kind = "HTTPException"
    /\ ErrorMessage("timeout") \in Range(last.body[1].detail)

-----------------------------------------------------------------------------
(* Claims about the cache administration *)

-----------------------------------------------------------------------------
(* Claims about the summary keys *)

\* C15: summary cache keys never collide across different filters: a
\* summary answered from the cache is answered with an aggregate that a
\* summary with the same filter stored.
C15_NoCrossFilterHit ==
    (HitResponse(last) /\ last.op = "summary")
        => /\ RequestKey(last) \in DOMAIN stored
           /\ stored[RequestKey(last)].filters = last.filters

-----------------------------------------------------------------------------
(* Claims about the executor *)

\* C16: no retry. Every query is sent to the warehouse exactly once; while
\* a request waits, its queries stay the ones it started with and an
\* answered query is not executed again; a request that ends after a
\* failure (rejected by the warehouse, or timed out) ends in that step with
\* an error whose text carries the underlying message, having issued no
\* more than the queries it started with.
C16_NoRetry ==
    [][ \A s \in Slots :
            /\ \A q \in DOMAIN reqs'[s].qs : reqs'[s].qs[q].attempts = 1
            /\ (reqs[s].pc = "await" /\ reqs'[s].pc = "await")
                => /\ DOMAIN reqs'[s].qs = DOMAIN reqs[s].qs
                   /\ \A q \in DOMAIN reqs[s].qs :
                        /\ reqs'[s].qs[q].sql = reqs[s].qs[q].sql
                        /\ reqs[s].qs[q].state = "ok"
                            => reqs'[s].qs[q] = reqs[s].qs[q]
            /\ (reqs[s].pc = "await" /\ reqs'[s].pc = "idle")
                => /\ reqs'[s] = IdleReq
                   /\ last'.op = reqs[s].op
                   /\ last'.issued = Cardinality(DOMAIN reqs[s].qs)
                   /\ \/ /\ last'.status = 200
                         /\ Cardinality(PendingQueries(reqs[s])) = 1
                      \/ /\ last'.status \in {500, 503}
                         /\ \E error \in {"upstream", "timeout"} :
                                last'.body[1].detail[Len(last'.body[1].detail)]
                                    = ErrorMessage(error) ]_vars

\* distinct_all has just failed with the warehouse's message, after its two
\* queries and no more
C16_Witness ==
    /\ last.op = "distinct_all"
    /\ last.status = 500
    /\ last.issued = 2
    /\ ErrorMessage("upstream") \in Range(last.body[1].detail)
    /\ reqs[1] = IdleReq

\* C17: a query that exceeds the 60-second timeout reaches the API boundary
\* as the executor raised it, a TimeoutError, and is answered with an
\* outcome (status, error kind) different from the one a generic warehouse
\* error gets.
C17_TimeoutDistinct ==
    (/\ last.op \in {"list", "health", "summary", "distinct", "distinct_all"}
     /\ last.status \in {500, 503}
     /\ last.body[1].detail[Len(last.body[1].detail)] = ErrorMessage("timeout"))
        => LET upstream == RouterError(last.op,
                            ServiceError(last.op, ExecutorError("upstream")))
           IN /\ last.body[1].caught = "TimeoutError"
              /\ <<last.status, last.body[1].kind, last.body[1].caught>>
                    # <<upstream.status_code, upstream.kind, upstream.caught>>

\* C18: a parameter's wire type is determined by its native type: str
\* gives STRING, int INT64, float FLOAT64, bool BOOL, date DATE, datetime
\* DATETIME, and any other type STRING.
C18_WireTypes ==
    (built # Absent /\ built[1].kind = "parameter")
        => built[1].param_type
            = (CASE built[1].value[1] = "str" -> "STRING"
                 [] built[1].value[1] = "int" -> "INT64"
                 [] built[1].value[1] = "float" -> "FLOAT64"
                 [] built[1].value[1] = "bool" -> "BOOL"
                 [] built[1].value[1] = "date" -> "DATE"
                 [] built[1].value[1] = "datetime" -> "DATETIME"
                 [] OTHER -> "STRING")

-----------------------------------------------------------------------------
(* Claims about reads of the cache *)

\* What the cache store holds: both categories' entries (of a summary, its
\* aggregate) and all timestamps
StoreOf(c) ==
    [unique_values |-> c.unique_values,
     summary_stats |-> [k \in DOMAIN c.summary_stats |->
                            Aggregate(c.summary_stats[k])],
     cache_timestamps |-> c.cache_timestamps]

\* In this step a value is set under key k
SetsKey(k) ==
    /\ last'.op \in CachedOps
    /\ last'.status = 200
    /\ last'.issued # 0
    /\ RequestKey(last') = k

\* C19: get never changes the cache store. In a step in which a cached
\* operation reads its key, be it a hit, a miss on a key never set or a
\* miss on a stale entry, both categories and all timestamps are the same
\* before and after; and an entry, stale or not, stays stored with its
\* timestamp, counted by stats, through every step that is neither a set
\* under its key nor a clear.
C19_GetDoesNotMutate ==
    [][ /\ (HitResponse(last') \/ \E s \in Slots : MissStart(s))
            => StoreOf(cache') = StoreOf(cache)
        /\ \A c \in {"unique_values", "summary_stats"} :
            \A k \in DOMAIN cache[c] :
                (~SetsKey(k) /\ ~(last'.op = "clear" /\ last'.status = 200))
                    => /\ k \in DOMAIN cache'[c]
                       /\ StoreOf(cache')[c][k] = StoreOf(cache)[c][k]
                       /\ k \in DOMAIN cache'.cache_timestamps
                       /\ cache'.cache_timestamps[k] = cache.cache_timestamps[k]
                       /\ get_cache_stats(cache').total_cached_items
                            >= Cardinality(DOMAIN cache'[c]) ]_vars

\* distinct(site_id) is on the miss path for an entry that is 300 seconds
\* old, and the entry is still stored and counted
C19_Witness ==
    \E s \in Slots :
        /\ reqs[s].pc = "await"
        /\ reqs[s].op = "distinct"
        /\ reqs[s].qs["distinct"].state = "pending"
        /\ <<"unique_", "site_id">> \in DOMAIN cache.unique_values
        /\ now - cache.cache_timestamps[<<"unique_", "site_id">>] = 300
        /\ get_cache_stats(cache).unique_values_cached >= 1
        /\ get_cache_stats(cache).total_cached_items >= 1

\* C20 as stated: at no time are more than 10 warehouse queries executing
C20_AtMostTenExecuting == JobsExecuting(pool) <= THREAD_POOL_max_workers

\* C20, amended: at no time are more than 10 threads of the pool inside a
\* warehouse client call (run_query or wait_for_completion); a query handed
\* to the executor, also while all 10 threads are busy, is put in the queue
\* and nothing else changes; a queued task is taken only by an idle thread;
\* and every query submitted is in flight or has returned, none is dropped.
\* (The jobs executing at the warehouse are not bounded by the pool.)
C20_PoolBoundsCalls ==
    [][/\ WorkersBusy(pool') <= THREAD_POOL_max_workers
       /\ pool'.submitted > pool.submitted =>
            pool' = [pool EXCEPT !.submitted = @ + 1, !.queued_run = @ + 1]
       /\ WorkersBusy(pool') > WorkersBusy(pool) =>
            WorkersBusy(pool) < THREAD_POOL_max_workers
       /\ InFlight(pool') + pool'.returned = pool'.submitted]_vars

\* A query was handed to the executor while all 10 threads were busy and
\* is waiting in the queue
C20_Witness ==
    /\ WorkersBusy(pool) = THREAD_POOL_max_workers
    /\ pool.queued_run > 0
    /\ pool.submitted > THREAD_POOL_max_workers

-----------------------------------------------------------------------------
(* Claims about the listing's two queries *)

\* In this step the listing in slot s ends and its response is written
ListEnds(s) ==
    reqs[s].op = "list" /\ reqs[s].pc = "await" /\ reqs'[s].pc = "idle"

\* C21 as stated: list responds, with a result or with an error, only
\* after both of its queries have completed: when its response is written
\* no query of it other than the one completing in that step is pending.
C21_RespondsAfterBoth ==
    [][ \A s \in Slots :
            ListEnds(s) => Cardinality(PendingQueries(reqs[s])) = 1 ]_vars

\* C21, amended: list issues its count query and its paged-data query in
\* the same step, before either has completed; the completion of one of
\* them while the other is pending writes no response; list answers 200
\* only in the step that completes the second of the two, with the records
\* of the data query and the total of the count query; and as soon as
\* either query fails list fails as a whole, with none, one or the other
\* query still pending, with an error that carries no records and no
\* total.
C21_ListJoin ==
    [][ \A s \in Slots :
            /\ (reqs[s].pc = "idle" /\ reqs'[s].op = "list"
                    /\ reqs'[s].pc = "await")
                => /\ DOMAIN reqs'[s].qs = {"data", "count"}
                   /\ PendingQueries(reqs'[s]) = {"data", "count"}
                   /\ reqs'[s].qs["data"].sql # reqs'[s].qs["count"].sql
            /\ (reqs[s].op = "list" /\ reqs[s].pc = "await"
                    /\ reqs'[s].pc = "await" /\ reqs'[s] # reqs[s])
                => last' = NoResponse
            /\ ListEnds(s)
                => /\ last'.op = "list"
                   /\ last'.status \in {200, 500}
                   /\ last'.status = 200
                        => /\ Cardinality(PendingQueries(reqs[s])) = 1
                           /\ \E q \in PendingQueries(reqs[s]) :
                                \A o \in {"data", "count"} \ {q} :
                                    /\ reqs[s].qs[o].state = "ok"
                                    /\ o = "count"
                                        => last'.body[1].total_records
                                            = reqs[s].qs[o].result[1]
                                    /\ o = "data"
                                        => last'.body[1].data
                                            = reqs[s].qs[o].result[1]
                   /\ last'.status = 500
                        => /\ last'.body[1].kind = "HTTPException"
                           /\ DOMAIN last'.body[1]
                                \cap {"data", "total_records"} = {} ]_vars

\* A listing that issued its two queries has just failed as a whole
C21_Witness ==
    /\ last.op = "list"
    /\ last.status = 500
    /\ last.issued = 2
    /\ last.body[1].kind = "HTTPException"

-----------------------------------------------------------------------------
(* Claims about concurrent misses *)

\* The warehouse queries of the summaries in flight for these filters
SummaryQueriesInFlight(filters) ==
    UNION {{<<s, q>> : q \in DOMAIN reqs[s].qs} :
                s \in {s \in Slots : /\ reqs[s].op = "summary"
                                     /\ reqs[s].pc = "await"
                                     /\ reqs[s].filters = filters}}

\* C22: two summary calls with the same filter whose executions overlap,
\* on a cache that holds nothing and has stored nothing yet, issue at most
\* one warehouse summary query in total.
C22_OverlappingSummariesOneQuery ==
    (cache = EmptyCache /\ stored = EmptyDict)
        => \A filters \in {NoFilters, SiteS1} :
                Cardinality(SummaryQueriesInFlight(filters)) <= 1

\* C23: last write wins, without torn entries. In every state reached by
\* any interleaving of requests, misses on one key included, every key
\* that holds a value holds a timestamp, and the two are the value and the
\* time of one set call, the last under that key; the set call of a miss
\* leaves its own value under the key, with the time of that call.
C23_LastWriteWins ==
    [][ /\ \A c \in {"unique_values", "summary_stats"} :
            \A k \in DOMAIN cache'[c] :
                /\ k \in DOMAIN cache'.cache_timestamps
                /\ k \in DOMAIN stored'
                /\ stored'[k].cache_type = c
                /\ cache'.cache_timestamps[k] = stored'[k].at
                /\ StoreOf(cache')[c][k]
                    = IF c = "summary_stats"
                      THEN Aggregate(stored'[k].data[1])
                      ELSE stored'[k].data[1]
        /\ \A k \in DOMAIN cache'.cache_timestamps :
            SetsKey(k)
                => /\ StoreOf(cache')[CategoryOf(last'.op)][k] = Served(last')
                   /\ cache'.cache_timestamps[k] = now' ]_vars

\* A miss has just stored its value under a key for which another request,
\* which missed before this set, is still waiting for the warehouse
C23_Witness ==
    /\ last.op \in CachedOps
    /\ last.status = 200
    /\ last.issued # 0
    /\ \E s \in Slots :
        /\ reqs[s].pc = "await"
        /\ reqs[s].op = last.op
        /\ RequestKey(reqs[s]) = RequestKey(last)
        /\ RequestKey(last) \in DOMAIN cache[CategoryOf(last.op)]
        /\ cache.cache_timestamps[RequestKey(last)] = now
        /\ now > 0

-----------------------------------------------------------------------------
(* Claims about the threads *)

\* C24: no warehouse round-trip runs on the thread of the event loop:
\* submitting the query, waiting for its completion and reading its rows
\* all run on pool workers, so at no time is a coroutine inside a call to
\* the warehouse, and whenever a step of a request is due on the event
\* loop the event loop is free to take it.
C24_NoRoundTripOnEventLoop ==
    /\ pool.reading = 0
    /\ (pool.submitted < MaxQueries \/ JobCount(pool.created) > 0
            \/ pool.completed > 0)
        => EventLoopFree(pool)

\* C25: every request eventually completes. Under fair scheduling of the
\* pool threads and of the event loop, and a warehouse that finishes every
\* job or lets the wait time out, every query handed to the executor, with
\* more queries in flight than the pool has threads, eventually returns or
\* raises: whatever is in flight, a state follows in which nothing is, all
\* the queries submitted having returned or raised.
C25_EveryQueryCompletes == []<>(InFlight(pool) = 0)

\* Eleven queries are in flight, one more than the pool has threads, and
\* all ten threads are busy
C25_Witness ==
    /\ InFlight(pool) > THREAD_POOL_max_workers
    /\ WorkersBusy(pool) = THREAD_POOL_max_workers
    /\ pool.returned = 0

-----------------------------------------------------------------------------
(* Claims about clears and requests in flight *)

\* C26: a miss that was awaiting the warehouse when a clear of its category
\* ran does not repopulate the cache with its pre-clear result: in the
\* step after such a clear has completed, the waiting request does not
\* end by leaving a value under its key.
C26_NoPreClearRepopulation ==
    [][ \A s \in Slots :
            (/\ last.op = "clear"
             /\ last.status = 200
             /\ reqs[s].pc = "await"
             /\ reqs[s].op \in CachedOps
             /\ last.cache_type \in {CategoryOf(reqs[s].op), "all", None})
                => ~(/\ reqs'[s].pc = "idle"
                     /\ last'.status = 200
                     /\ RequestKey(reqs[s])
                            \in DOMAIN cache'[CategoryOf(reqs[s].op)]) ]_vars

-----------------------------------------------------------------------------
(* Claims about the cached summary *)

\* C27: serving a summary does not change what is cached: between the set
\* that stored an aggregate under a summary key and the next set or clear
\* for that key, the value under the key is the aggregate that set stored,
\* its eleven fields and nothing else, whatever GET /forecast/summary adds
\* to its response.
C27_CachedSummaryUnchanged ==
    \A k \in DOMAIN cache.summary_stats :
        /\ k \in DOMAIN stored
        /\ cache.summary_stats[k] = stored[k].data[1]
        /\ cache.summary_stats[k].performance_metrics = FALSE

-----------------------------------------------------------------------------
(* Claims about failed misses *)

\* C28: a failed miss leaves the cache untouched. From its miss to its
\* failure a summary, distinct or distinct_all call changes neither
\* category and no timestamp: not when it misses, not when the first of
\* the two queries of distinct_all is answered, and not when a query of it
\* fails or times out; it leaves nothing behind in the request; and after
\* the failure its key is still not served from the cache, so that the
\* next call for it misses again and issues its queries anew, each once.
C28_FailedMissLeavesCache ==
    [][ \A s \in Slots :
            /\ (MissStart(s) \/ (/\ reqs[s].op \in CachedOps
                                 /\ reqs[s].pc = "await"
                                 /\ reqs'[s].pc = "await"))
                => cache' = cache /\ stored' = stored
            /\ (/\ reqs[s].op \in CachedOps
                /\ reqs[s].pc = "await"
                /\ reqs'[s].pc = "idle"
                /\ last'.status # 200)
                => /\ cache' = cache
                   /\ stored' = stored
                   /\ reqs'[s] = IdleReq
                   /\ last'.status = 500
                   /\ _get_cache(cache', now', RequestKey(reqs[s]),
                                 CategoryOf(reqs[s].op)) = Absent
            /\ MissStart(s)
                => /\ PendingQueries(reqs'[s]) = DOMAIN reqs'[s].qs
                   /\ DOMAIN reqs'[s].qs # {}
                   /\ \A q \in DOMAIN reqs'[s].qs :
                        reqs'[s].qs[q].attempts = 1 ]_vars

\* distinct_all has just failed while both categories hold entries of
\* other keys, and it has left none of its own
C28_Witness ==
    /\ last.op = "distinct_all"
    /\ last.status = 500
    /\ last.issued = 2
    /\ cache.summary_stats # EmptyDict
    /\ cache.unique_values # EmptyDict
    /\ AllUniqueKey \notin DOMAIN cache.unique_values
    /\ AllUniqueKey \notin DOMAIN cache.cache_timestamps

-----------------------------------------------------------------------------
(* Claims about the listing's metadata *)

\* The predicates in the text of a query
PredicateCount(sql) ==
    Cardinality({i \in 1..Len(sql) :
                    \E f \in Range(FilterFields) :
                        sql[i] = Lit(ExpectedPredicate(f))})

\* C29: the filter count GET /forecast/ reports, metadata.filters_applied,
\* is the number of predicates in the WHERE clause of the data query and
\* of the count query executed for that request, for every combination of
\* filter parameters, empty strings included.
C29_FilterCountIsPredicateCount ==
    [][ \A s \in Slots :
            (ListEnds(s) /\ last'.status = 200)
                => \A q \in {"data", "count"} :
                        last'.body[1].filters_applied
                            = PredicateCount(reqs[s].qs[q].sql) ]_vars

====
